---- MODULE Spec2Model ----
(***************************************************************************)
(* Quota-aware credential rotation and batch dispatch of                   *)
(* ai_csv_transformer.py: KeyManager (usage ledger, 24h window, key        *)
(* rotation), generate_personalized_email (bounded retries),               *)
(* process_batch, save_results_async and process_contacts, as run by       *)
(* upload_file and by main(); make_listmonk_request of web_interface.py.   *)
(*                                                                         *)
(* Time is counted in whole hours.  A contact is represented by its        *)
(* 1-based position in the input.                                          *)
(***************************************************************************)
EXTENDS Integers, Sequences, FiniteSets, TLC

\* ------------------------------------------------------------------ bounds
MaxContacts == 3        \* largest input table explored
MaxBatch == 2           \* largest batch_size explored
T0 == 50                \* clock reading when the KeyManager is constructed
MaxElapsed == 1         \* hours the clock may advance during one run
MaxSegments == 4        \* most '==='-separated fields in a reply
MaxOverlap == 3         \* acquisitions explored while two uploads overlap
MaxAcquired == 2        \* acquisitions explored after a load of key_usage.json

\* ------------------------------------------------------- program constants
QUOTA == 1450           \* per-key daily limit compared in get_next_available_key
EXHAUSTED == 1500       \* value written when the service reports a quota error
DAY == 24               \* timedelta(hours=24)
max_retries_more == 3 + 1      \* variant: one more try per record
max_retries == 3
retry_delay == 1
listmonk_max_retries == 3      \* max_retries of make_listmonk_request
listmonk_retry_delay == 1      \* its first retry_delay, in seconds

NONE == "NONE"
Keys == {"A", "B"}
Pools == {<<"A">>, <<"A", "B">>, <<"A", "A">>}
EmptyFn == [k \in {} |-> 0]

VARIABLES
    api_keys,            \* KeyManager.api_keys
    key_usage,           \* KeyManager.key_usage (defaultdict(int))
    last_reset,          \* KeyManager.last_reset (defaultdict(now))
    current_key_index,   \* KeyManager.current_key_index (0-based)
    usage_file,          \* content of key_usage.json
    now,                 \* datetime.now()
    total_contacts,      \* len(contacts)
    batch_size,
    i,                   \* loop variable of process_contacts
    processed,
    successful,
    batch,               \* contacts[i:i + batch_size]
    j,                   \* 1-based position of `row` in batch
    results,             \* list built by process_batch
    attempt,             \* loop variable of generate_personalized_email
    api_key,             \* key returned by the last get_next_available_key
    gen,                 \* how generate_personalized_email ended for the row
    reply,               \* what the last generate_content call produced
    output_file,         \* rows of the output CSV
    pc,
    \* ---- observation (history) variables
    examined,            \* keys looked at by the last get_next_available_key
    calls,               \* generate_content calls made for the current row
    acquisitions,        \* get_next_available_key calls made for the current row
    usage_at_start,      \* key_usage when the current row started
    marked,              \* keys marked exhausted and not reset since
    passed,              \* rows handed to generate_personalized_email
    chunks,              \* batches taken so far, with their result counts
    sink_calls,          \* 1-based batch numbers given to save_results_async
    acquired,            \* get_next_available_key calls made by AcquireAgain
    peer,                \* KeyManager of a second upload running at the same time
    taken,               \* keys handed out so far, counted over both uploads
    slept,               \* backoff sleeps (seconds) made for the current row
    response,            \* what upload_file answers
    succeeded,           \* rows for which generate_personalized_email gave a result
    lm                   \* the make_listmonk_request call in progress

kmVars == <<api_keys, key_usage, last_reset, current_key_index, usage_file>>
runVars == <<total_contacts, batch_size, i, processed, successful, batch, j,
             results, attempt, api_key, gen, reply, output_file, pc>>
histVars == <<examined, calls, acquisitions, usage_at_start, marked, passed,
              chunks, sink_calls, acquired, peer, taken>>
vars == <<kmVars, now, runVars, histVars, slept, response, succeeded, lm>>

\* ---------------------------------------------------------------- helpers
Get(f, k, d) == IF k \in DOMAIN f THEN f[k] ELSE d
Put(f, k, v) == [x \in (DOMAIN f) \cup {k} |-> IF x = k THEN v ELSE f[x]]
Range(s) == {s[n] : n \in 1..Len(s)}
Min(a, b) == IF a < b THEN a ELSE b

\* Variant of isoformat: writes the date only
isoformat_dateOnly(t) == <<t \div DAY, 0>>

\* datetime.isoformat / datetime.fromisoformat: date part and time part
isoformat(t) == <<t \div DAY, t % DAY>>
fromisoformat(s) == s[1] * DAY + s[2]

\* ------------------------------------------------------------ usage ledger
\* key_usage.json is absent ("missing"), not readable or not JSON or without a
\* usable 'usage' member ("corrupt"), the object written by save ("json"), or
\* an object with a 'usage' member whose 'reset_times' member is missing or
\* malformed ("no_reset_times").
MissingFile == [kind |-> "missing", usage |-> EmptyFn, reset_times |-> EmptyFn]
CorruptFile == [kind |-> "corrupt", usage |-> EmptyFn, reset_times |-> EmptyFn]

\* Variant of the dump: leaves the reset times out
Dump_usageOnly(ku, lr) ==
    [kind |-> "json", usage |-> ku, reset_times |-> EmptyFn]

\* json.dump in save_usage_state
Dump(ku, lr) ==
    [kind |-> "json", usage |-> ku,
     reset_times |-> [k \in DOMAIN lr |-> isoformat(lr[k])]]

\* save_usage_state: fails soft. A write that fails ("write_failed", e.g. the
\* disk is full) leaves behind the file that open(..., 'w') truncated.
SaveOutcomes == {"ok", "write_failed"}
save_usage_state(ku, lr, file, outcome) ==
    IF outcome = "ok" THEN Dump(ku, lr) ELSE CorruptFile

\* Variant of the except clause of save_usage_state: catches nothing
SaveCaughtKinds_none == {}

\* `except Exception as e` of save_usage_state
SaveCaughtKinds == {"write_failed"}

\* save_usage_state lets the error of a failed write out to its caller
SaveRaises(outcome) == outcome # "ok" /\ outcome \notin SaveCaughtKinds

\* load_usage_state on a freshly constructed KeyManager
load_usage_state(file) ==
    IF file.kind = "json"
    THEN [key_usage |-> file.usage,
          last_reset |-> [k \in DOMAIN file.reset_times |->
                             fromisoformat(file.reset_times[k])]]
    ELSE IF file.kind = "no_reset_times"
    THEN [key_usage |-> file.usage,      \* assigned before data['reset_times'] raises
          last_reset |-> EmptyFn]
    ELSE [key_usage |-> EmptyFn, last_reset |-> EmptyFn]

\* --------------------------------------------------------- key rotation
\* Variant of the 24h test: resets a window that is exactly 24h old
WindowExpired_atDay(t, start) == (t - start) >= DAY

\* The 24h test of get_next_available_key
WindowExpired(t, start) == (t - start) > DAY

\* Variants of the quota test: one call too many, one call too few
UnderLimit_inclusive(used) == used <= QUOTA
UnderLimit_short(used) == used < QUOTA - 1

\* The quota test of get_next_available_key
UnderLimit(used) == used < QUOTA

\* while attempts < len(self.api_keys): ... of get_next_available_key
RECURSIVE KeyLoop(_, _, _, _, _, _, _)
KeyLoop(pool, attempts, idx, ku, lr, t, seen) ==
    IF attempts >= Len(pool)
    THEN [key |-> NONE, key_usage |-> ku, last_reset |-> lr,
          current_key_index |-> idx, examined |-> seen]
    ELSE LET key == pool[idx + 1]
             lr1 == IF key \in DOMAIN lr THEN lr ELSE Put(lr, key, t)
             expired == WindowExpired(t, lr1[key])
             ku2 == IF expired THEN Put(ku, key, 0) ELSE Put(ku, key, Get(ku, key, 0))
             lr2 == IF expired THEN Put(lr1, key, t) ELSE lr1
         IN  IF UnderLimit(ku2[key])
             THEN [key |-> key, key_usage |-> Put(ku2, key, ku2[key] + 1),
                   last_reset |-> lr2, current_key_index |-> idx,
                   examined |-> Append(seen, key)]
             ELSE KeyLoop(pool, attempts + 1, (idx + 1) % Len(pool), ku2, lr2, t,
                          Append(seen, key))

\* Variant of the rotation: moves the cursor past the key it returns
get_next_available_key_advancing(pool, idx, ku, lr, t) ==
    LET r == KeyLoop(pool, 0, idx, ku, lr, t, <<>>)
    IN  IF r.key = NONE THEN r
        ELSE [r EXCEPT !.current_key_index = (@ + 1) % Len(pool)]

\* Variant of the rotation: rewinds the cursor when no key is left
get_next_available_key_rewinding(pool, idx, ku, lr, t) ==
    LET r == KeyLoop(pool, 0, idx, ku, lr, t, <<>>)
    IN  IF r.key = NONE THEN [r EXCEPT !.current_key_index = 0] ELSE r

get_next_available_key(pool, idx, ku, lr, t) == KeyLoop(pool, 0, idx, ku, lr, t, <<>>)

\* ------------------------------------------------ generate_personalized_email
\* What client.generate_content(prompt) does: it raises, or it returns a text
\* that '===' splits into `segments` fields (two or more: one field fails the
\* same way as two). `blank` tells that one of the first three fields is empty
\* once stripped.
Replies ==
    {[error |-> e, segments |-> 0, blank |-> FALSE] : e \in {"quota", "other"}}
    \cup {[error |-> "none", segments |-> n, blank |-> FALSE] : n \in 2..MaxSegments}
    \cup {[error |-> "none", segments |-> 3, blank |-> TRUE]}
NoReply == [error |-> "none", segments |-> 0, blank |-> FALSE]

\* The try block: the exception it raises, or "none" when it reaches `return result`
TryBlock(r) ==
    IF r.error # "none" THEN r.error
    ELSE IF r.segments < 3 THEN "IndexError"   \* fields[1] or fields[2]
    ELSE "none"

\* Variant of the except clause: catches the errors of the call only
CaughtKinds_callOnly == {"quota", "other"}

\* `except Exception as e`
CaughtKinds == {"quota", "other", "IndexError"}

\* Variants of the quota-error test: looks for the status code only; takes
\* every error of the call for a quota error
IsQuotaError_codeOnly(exc) == exc = "429"
IsQuotaError_anyError(exc) == exc \in {"quota", "other"}

\* "429" in error_msg or "quota" in error_msg.lower()
IsQuotaError(exc) == exc = "quota"

\* Variants of the marking: leaves the key one call below its limit; adds the
\* penalty to the counter instead of setting it
MarkExhausted_low(ku, key) == Put(ku, key, QUOTA - 1)
MarkExhausted_added(ku, key) == Put(ku, key, Get(ku, key, 0) + EXHAUSTED)

\* key_manager.key_usage[api_key] = 1500
MarkExhausted(ku, key) == Put(ku, key, EXHAUSTED)

\* Variant of the backoff: the same delay before every retry
wait_time_fixed(a) == retry_delay

\* wait_time = retry_delay * (2 ** attempt)
wait_time(a) == retry_delay * (2 ^ a)

\* A sleep lets the clock move on by less than an hour
Advance(t) == {u \in {t, t + 1} : u <= T0 + MaxElapsed}

\* ------------------------------------------------------- save_results_async
SinkOutcomes == {"ok", "oserror"}
NoFile == [header |-> 0, rows |-> <<>>]
\* Variant of the test: takes the file for empty on every append
file_empty_always(f) == TRUE

\* file_empty = not output_file.exists() or output_file.stat().st_size == 0
file_empty(f) == f.header = 0 /\ f.rows = <<>>
save_results_async(res, f) ==
    [header |-> IF file_empty(f) THEN f.header + 1 ELSE f.header,
     rows |-> f.rows \o res]

\* ------------------------------------------------------------------- Init
SeedUsage == {QUOTA - 1, QUOTA}
SeedStarts == {T0 - DAY - 1, T0 - DAY}
\* key_usage.json as an earlier run may have left it
InitialFiles ==
    {MissingFile} \cup
    UNION {{Dump(u, s) : u \in [D -> SeedUsage], s \in [D -> SeedStarts]} :
           D \in (SUBSET Keys) \ {{}}}

\* No second upload is in progress
NoPeer == [active |-> FALSE, key_usage |-> EmptyFn, last_reset |-> EmptyFn,
           current_key_index |-> 0]

\* make_listmonk_request has not been called
NoRequest == [pc |-> "idle", method |-> "none", attempt |-> 0, retry_delay |-> 0,
              outcomes |-> <<>>, slept |-> <<>>, result |-> "none"]

\* KeyManager.__init__ followed by the first lines of process_contacts, given
\* the output CSV as it is found
ConstructWith(pool, file, n, b, start, out) ==
    /\ api_keys = pool
    /\ usage_file = file
    /\ key_usage = load_usage_state(file).key_usage
    /\ last_reset = load_usage_state(file).last_reset
    /\ current_key_index = 0
    /\ now = T0
    /\ total_contacts = n
    /\ batch_size = b
    /\ i = 0
    /\ processed = 0
    /\ successful = 0
    /\ batch = <<>>
    /\ j = 1
    /\ results = <<>>
    /\ attempt = 0
    /\ api_key = NONE
    /\ gen = "none"
    /\ reply = NoReply
    /\ output_file = out
    /\ pc = start
    /\ examined = <<>>
    /\ calls = <<>>
    /\ acquisitions = <<>>
    /\ usage_at_start = load_usage_state(file).key_usage
    /\ marked = {}
    /\ passed = <<>>
    /\ chunks = <<>>
    /\ sink_calls = <<>>
    /\ acquired = 0
    /\ peer = NoPeer
    /\ taken = [k \in Keys |-> 0]
    /\ slept = <<>>
    /\ response = "none"
    /\ succeeded = <<>>
    /\ lm = NoRequest

\* process_contacts called by upload_file: the output path is new
Construct(pool, file, n, b, start) ==
    ConstructWith(pool, file, n, b, start, NoFile)

Init ==
    \E pool \in Pools, file \in InitialFiles,
       n \in 0..MaxContacts, b \in 1..MaxBatch :
        Construct(pool, file, n, b, "batch_loop")

\* ------------------------------------------------------------ process_contacts
\* Variant of the slice: does not stop at the end of the input
BatchSlice_overrun(start, size, total) == [n \in 1..size |-> start + n]

\* contacts[i:i + batch_size]
BatchSlice(start, size, total) ==
    [n \in 1..(Min(start + size, total) - start) |-> start + n]

\* for i in range(0, total_contacts, batch_size): batch = ...
NextBatch ==
    /\ pc = "batch_loop"
    /\ i < total_contacts
    /\ batch' = BatchSlice(i, batch_size, total_contacts)
    /\ results' = <<>>
    /\ j' = 1
    /\ pc' = "row_loop"
    /\ UNCHANGED <<succeeded, lm>>
    /\ UNCHANGED <<kmVars, now, total_contacts, batch_size, i, processed,
                   successful, attempt, api_key, gen, reply, output_file, histVars,
                   slept, response>>

\* progress_bar.close(); return processed, successful
Return ==
    /\ pc = "batch_loop"
    /\ i >= total_contacts
    /\ pc' = "returned"
    /\ UNCHANGED <<succeeded, lm>>
    /\ UNCHANGED <<kmVars, now, total_contacts, batch_size, i, processed,
                   successful, batch, j, results, attempt, api_key, gen, reply,
                   output_file, histVars, slept, response>>

\* process_batch: `for row in batch` takes the next row and calls
\* generate_personalized_email
StartRow ==
    /\ pc = "row_loop"
    /\ j <= Len(batch)
    /\ attempt' = 0
    /\ gen' = "none"
    /\ reply' = NoReply
    /\ api_key' = NONE
    /\ calls' = <<>>
    /\ acquisitions' = <<>>
    /\ usage_at_start' = key_usage
    /\ passed' = Append(passed, batch[j])
    /\ slept' = <<>>
    /\ pc' = "acquire"
    /\ UNCHANGED <<succeeded, lm>>
    /\ UNCHANGED <<kmVars, now, total_contacts, batch_size, i, processed,
                   successful, batch, j, results, output_file, examined, marked,
                   chunks, sink_calls, acquired, peer, taken, response>>

\* Variant of the test: goes on to the call without a key
NoKey_ignored(key) == FALSE

\* if not api_key: None or the empty string
NoKey(key) == key = NONE \/ key = ""

\* api_key = key_manager.get_next_available_key(); if not api_key: return None
Acquire ==
    /\ pc = "acquire"
    /\ \E outcome \in SaveOutcomes :
        LET r == get_next_available_key(api_keys, current_key_index, key_usage,
                                        last_reset, now)
        IN  /\ key_usage' = r.key_usage
            /\ last_reset' = r.last_reset
            /\ current_key_index' = r.current_key_index
            /\ examined' = r.examined
            /\ api_key' = IF r.key # NONE /\ SaveRaises(outcome) THEN NONE ELSE r.key
            /\ IF r.key # NONE           \* the key was counted and saved
               THEN /\ usage_file' = save_usage_state(r.key_usage, r.last_reset,
                                                      usage_file, outcome)
                    /\ acquisitions' = Append(acquisitions,
                                              [key |-> r.key, saved |-> outcome = "ok"])
                    /\ marked' = IF WindowExpired(now, Get(last_reset, r.key, now))
                                 THEN marked \ {r.key} ELSE marked
               ELSE /\ outcome = "ok"
                    /\ usage_file' = usage_file
                    /\ acquisitions' = Append(acquisitions,
                                              [key |-> NONE, saved |-> FALSE])
                    /\ marked' = marked
            /\ IF r.key # NONE /\ SaveRaises(outcome)
               THEN gen' = "exception" /\ pc' = "row_end"   \* leaves the function
               ELSE IF NoKey(r.key)
               THEN gen' = "none" /\ pc' = "row_end"
               ELSE gen' = gen /\ pc' = "call"
    /\ UNCHANGED <<succeeded, lm>>
    /\ UNCHANGED <<api_keys, now, total_contacts, batch_size, i, processed,
                   successful, batch, j, results, attempt, reply, output_file,
                   calls, usage_at_start, passed, chunks, sink_calls, acquired,
                   peer, taken, slept, response>>

\* genai.configure ... client.generate_content(prompt).text, the parsing of the
\* reply and the except clause, up to the next `await` or `return`
Call ==
    /\ pc = "call"
    /\ \E r \in Replies, outcome \in SaveOutcomes :
        LET exc == TryBlock(r)
        IN  /\ reply' = r
            /\ calls' = Append(calls, [key |-> api_key, exc |-> exc])
            /\ succeeded' = IF exc = "none" THEN Append(succeeded, batch[j])
                             ELSE succeeded
            /\ IF exc # "none" /\ exc \in CaughtKinds /\ IsQuotaError(exc)
               THEN /\ key_usage' = MarkExhausted(key_usage, api_key)
                    /\ usage_file' = save_usage_state(MarkExhausted(key_usage, api_key),
                                                      last_reset, usage_file, outcome)
                    /\ marked' = marked \cup {api_key}
               ELSE /\ outcome = "ok"
                    /\ UNCHANGED <<key_usage, usage_file, marked>>
            /\ IF exc = "none"
               THEN gen' = "result" /\ pc' = "row_end"
               ELSE IF exc \notin CaughtKinds
               THEN gen' = "exception" /\ pc' = "row_end"
               ELSE IF IsQuotaError(exc) /\ SaveRaises(outcome)
               THEN gen' = "exception" /\ pc' = "row_end"  \* raised in the handler
               ELSE IF IsQuotaError(exc) /\ attempt < max_retries - 1
               THEN gen' = gen /\ pc' = "backoff"
               ELSE gen' = "none" /\ pc' = "row_end"
    /\ UNCHANGED lm
    /\ UNCHANGED <<api_keys, last_reset, current_key_index, now, total_contacts,
                   batch_size, i, processed, successful, batch, j, results,
                   attempt, api_key, output_file, examined, acquisitions,
                   usage_at_start, passed, chunks, sink_calls, acquired,
                   peer, taken, slept, response>>

\* await asyncio.sleep(wait_time); continue
Backoff ==
    /\ pc = "backoff"
    /\ now' \in Advance(now)
    /\ slept' = Append(slept, wait_time(attempt))
    /\ attempt' = attempt + 1
    /\ pc' = IF attempt + 1 < max_retries THEN "acquire" ELSE "row_end"
    /\ UNCHANGED <<succeeded, lm>>
    /\ UNCHANGED <<kmVars, total_contacts, batch_size, i, processed, successful,
                   batch, j, results, api_key, gen, reply, output_file, histVars,
                   response>>

\* process_batch after generate_personalized_email: collect the result, pace,
\* go to the next row or return the results
RowEnd ==
    /\ pc = "row_end"
    /\ results' = IF gen = "result" THEN Append(results, batch[j]) ELSE results
    /\ IF gen = "exception"
       THEN now' = now                  \* `continue` skips the pacing sleep
       ELSE now' \in Advance(now)       \* await asyncio.sleep(0.5)
    /\ j' = j + 1
    /\ pc' = IF j + 1 <= Len(batch) THEN "row_loop" ELSE "batch_done"
    /\ UNCHANGED <<succeeded, lm>>
    /\ UNCHANGED <<kmVars, total_contacts, batch_size, i, processed, successful,
                   batch, attempt, api_key, gen, reply, output_file, histVars,
                   slept, response>>

\* processed += len(batch); if results: successful += ...; save_results_async;
\* await asyncio.sleep(1)
BatchDone ==
    /\ pc = "batch_done"
    /\ processed' = processed + Len(batch)
    /\ chunks' = Append(chunks, [rows |-> batch, nresults |-> Len(results)])
    /\ \E outcome \in SinkOutcomes :
        IF results # <<>>
        THEN /\ successful' = successful + Len(results)
             /\ sink_calls' = Append(sink_calls, Len(chunks) + 1)
             /\ IF outcome = "ok"
                THEN /\ output_file' = save_results_async(results, output_file)
                     /\ now' \in Advance(now)
                     /\ i' = i + batch_size
                     /\ pc' = "batch_loop"
                ELSE /\ pc' = "raised"      \* nothing catches it in process_contacts
                     /\ UNCHANGED <<output_file, now, i>>
        ELSE /\ outcome = "ok"
             /\ now' \in Advance(now)
             /\ i' = i + batch_size
             /\ pc' = "batch_loop"
             /\ UNCHANGED <<successful, sink_calls, output_file>>
    /\ UNCHANGED <<succeeded, lm>>
    /\ UNCHANGED <<kmVars, total_contacts, batch_size, batch, j, results, attempt,
                   api_key, gen, reply, examined, calls, acquisitions,
                   usage_at_start, marked, passed, acquired, peer, taken, slept,
                   response>>

\* transform_for_listmonk(output_file, listmonk_file): open(input_path, 'r')
\* raises when the output CSV was never created
transform_for_listmonk(f) == IF f.header = 0 THEN "FileNotFoundError" ELSE "ok"

\* upload_file after process_contacts: the listmonk file is written and the
\* counts are returned, or the except clause answers with status 500
Respond ==
    /\ pc \in {"returned", "raised"}
    /\ response' = IF pc = "returned" /\ transform_for_listmonk(output_file) = "ok"
                   THEN "counts" ELSE "error"
    /\ pc' = "responded"
    /\ UNCHANGED <<succeeded, lm>>
    /\ UNCHANGED <<kmVars, now, total_contacts, batch_size, i, processed,
                   successful, batch, j, results, attempt, api_key, gen, reply,
                   output_file, histVars, slept>>

Next ==
    \/ NextBatch
    \/ StartRow
    \/ Acquire
    \/ Call
    \/ Backoff
    \/ RowEnd
    \/ BatchDone
    \/ Return
    \/ Respond

Spec == Init /\ [][Next]_vars

\* ---------------------------------------------------- the command-line run
\* main() gives process_contacts the fixed path
\* uploads/processed/output_ai_transformed.csv, which an earlier run may have
\* left behind with its header and its rows (an earlier row is written 0).
PriorOutputs == {NoFile, [header |-> 1, rows |-> <<0>>]}

InitCli ==
    \E file \in InitialFiles, n \in 1..MaxContacts, b \in 1..MaxBatch,
       out \in PriorOutputs :
        ConstructWith(<<"A">>, file, n, b, "batch_loop", out)

\* process_contacts as main() runs it: no upload_file answers afterwards
NextCli ==
    \/ NextBatch
    \/ StartRow
    \/ Acquire
    \/ Call
    \/ Backoff
    \/ RowEnd
    \/ BatchDone
    \/ Return

SpecCli == InitCli /\ [][NextCli]_vars

\* ------------------------------------------------ loading whatever is on disk
\* key_usage.json with its 'reset_times' member missing or malformed
PartialFiles ==
    UNION {{[kind |-> "no_reset_times", usage |-> u, reset_times |-> EmptyFn] :
                u \in [D -> SeedUsage]} : D \in (SUBSET Keys) \ {{}}}

StoredFiles == InitialFiles \cup {CorruptFile} \cup PartialFiles

\* KeyManager.__init__ up to self.usage_file = 'key_usage.json'
InitLoad == \E pool \in Pools : Construct(pool, MissingFile, 0, 1, "new")

\* self.load_usage_state() on the file found on disk
LoadUsageState ==
    /\ pc = "new"
    /\ \E file \in StoredFiles :
        /\ usage_file' = file
        /\ key_usage' = load_usage_state(file).key_usage
        /\ last_reset' = load_usage_state(file).last_reset
        /\ usage_at_start' = load_usage_state(file).key_usage
    /\ pc' = "loaded"
    /\ UNCHANGED <<succeeded, lm>>
    /\ UNCHANGED <<api_keys, current_key_index, now, total_contacts, batch_size,
                   i, processed, successful, batch, j, results, attempt, api_key,
                   gen, reply, output_file, examined, calls, acquisitions, marked,
                   passed, chunks, sink_calls, acquired, peer, taken, slept,
                   response>>

\* get_next_available_key on the KeyManager just constructed
AcquireLoaded ==
    /\ pc = "loaded"
    /\ acquired < MaxAcquired
    /\ \E outcome \in SaveOutcomes :
        LET r == get_next_available_key(api_keys, current_key_index, key_usage,
                                        last_reset, now)
        IN  /\ key_usage' = r.key_usage
            /\ last_reset' = r.last_reset
            /\ current_key_index' = r.current_key_index
            /\ examined' = r.examined
            /\ api_key' = r.key
            /\ usage_file' = IF r.key = NONE THEN usage_file
                             ELSE save_usage_state(r.key_usage, r.last_reset,
                                                   usage_file, outcome)
    /\ acquired' = acquired + 1
    /\ UNCHANGED <<succeeded, lm>>
    /\ UNCHANGED <<api_keys, now, total_contacts, batch_size, i, processed,
                   successful, batch, j, results, attempt, gen, reply,
                   output_file, pc, calls, acquisitions, usage_at_start, marked,
                   passed, chunks, sink_calls, peer, taken, slept, response>>

NextLoad ==
    \/ LoadUsageState
    \/ AcquireLoaded

SpecLoad == InitLoad /\ [][NextLoad]_vars

\* ------------------------------------------- the pool read from the environment
\* GEMINI_API_KEYS as deployed: not set (or set to the empty string), or
\* naming one key
Envs == {"", "A"}

\* os.getenv('GEMINI_API_KEYS', '').split(','): splitting the empty string
\* gives one empty key
getenv_split(env) == <<env>>

InitEnv ==
    \E env \in Envs, file \in InitialFiles,
       n \in 0..MaxContacts, b \in 1..MaxBatch :
        Construct(getenv_split(env), file, n, b, "batch_loop")

SpecEnv == InitEnv /\ [][Next]_vars

\* ----------------------------------------------------- make_listmonk_request
\* The method given by the caller; "patch" stands for any method the function
\* does not support.
Methods == {"get", "post", "put", "delete", "patch"}

\* What one attempt comes to: the response, or the exception raised inside
\* the try block. An unsupported method raises ValueError before any request.
AttemptOutcomes(method) ==
    IF method \in {"get", "post", "put", "delete"}
    THEN {"ok", "HTTPStatusError", "ConnectError", "Exception"}
    ELSE {"ValueError"}

\* Variant of the test: the last attempt is not told apart
LastAttempt_never(a) == FALSE

\* if attempt == max_retries - 1: raise
LastAttempt(a) == a = listmonk_max_retries - 1

\* retry_delay * (1 + 0.1 * attempt), in tenths of a second
retry_delay_with_jitter(delay, a) == delay * (10 + a)

InitListmonk == Construct(<<"A">>, MissingFile, 0, 1, "listmonk")

\* make_listmonk_request(method, endpoint, **kwargs) is called
ListmonkRequest ==
    /\ pc = "listmonk"
    /\ lm.pc = "idle"
    /\ \E m \in Methods :
        lm' = [NoRequest EXCEPT !.pc = "try", !.method = m,
                                !.retry_delay = listmonk_retry_delay]
    /\ UNCHANGED <<kmVars, now, runVars, histVars, slept, response, succeeded>>

\* One pass through the try statement: the request, raise_for_status, and
\* the except clause that takes the error
ListmonkAttempt ==
    /\ lm.pc = "try"
    /\ \E o \in AttemptOutcomes(lm.method) :
        lm' = IF o = "ok"
              THEN [lm EXCEPT !.outcomes = Append(@, o), !.result = "response",
                              !.pc = "returned"]
              ELSE IF LastAttempt(lm.attempt)
              THEN [lm EXCEPT !.outcomes = Append(@, o), !.result = o,
                              !.pc = "raised"]
              ELSE [lm EXCEPT !.outcomes = Append(@, o), !.pc = "wait"]
    /\ UNCHANGED <<kmVars, now, runVars, histVars, slept, response, succeeded>>

\* The end of the loop body after a caught error: sleep if attempts are left,
\* then the next attempt, or the end of the function
ListmonkWait ==
    /\ lm.pc = "wait"
    /\ lm' = IF lm.attempt < listmonk_max_retries - 1
             THEN [lm EXCEPT !.slept = Append(@, retry_delay_with_jitter(
                                                    lm.retry_delay, lm.attempt)),
                             !.retry_delay = @ * 2,
                             !.attempt = @ + 1,
                             !.pc = "try"]
             ELSE IF lm.attempt + 1 < listmonk_max_retries
             THEN [lm EXCEPT !.attempt = @ + 1, !.pc = "try"]
             ELSE [lm EXCEPT !.result = "None", !.pc = "returned"]
    /\ UNCHANGED <<kmVars, now, runVars, histVars, slept, response, succeeded>>

NextListmonk ==
    \/ ListmonkRequest
    \/ ListmonkAttempt
    \/ ListmonkWait

SpecListmonk == InitListmonk /\ [][NextListmonk]_vars

\* --------------------------------------------- acquisitions within one window
\* A fresh KeyManager (no key_usage.json) on which get_next_available_key is
\* called again and again while the clock stands still.
InitDrain == \E pool \in Pools : Construct(pool, MissingFile, 0, 1, "drain")

AcquireAgain ==
    /\ pc = "drain"
    /\ acquired <= Len(api_keys) * QUOTA
    /\ LET r == get_next_available_key(api_keys, current_key_index, key_usage,
                                       last_reset, now)
       IN  /\ key_usage' = r.key_usage
           /\ last_reset' = r.last_reset
           /\ current_key_index' = r.current_key_index
           /\ examined' = r.examined
           /\ api_key' = r.key
           /\ usage_file' = IF r.key # NONE
                            THEN save_usage_state(r.key_usage, r.last_reset,
                                                  usage_file, "ok")
                            ELSE usage_file
    /\ acquired' = acquired + 1
    /\ UNCHANGED <<succeeded, lm>>
    /\ UNCHANGED <<api_keys, now, total_contacts, batch_size, i, processed,
                   successful, batch, j, results, attempt, gen, reply,
                   output_file, pc, calls, acquisitions, usage_at_start, marked,
                   passed, chunks, sink_calls, peer, taken, slept, response>>

NextDrain == AcquireAgain

SpecDrain == InitDrain /\ [][NextDrain]_vars

\* ------------------------------------------------- two uploads at the same time
\* upload_file is a coroutine: while one upload waits in asyncio.sleep another
\* one runs. Each process_contacts builds its own KeyManager on the same
\* key_usage.json. The clock stands still and every write succeeds.
Total(f) == f["A"] + f["B"]

UnexpiredFiles ==
    {f \in InitialFiles :
        \A k \in DOMAIN f.reset_times :
            ~WindowExpired(T0, fromisoformat(f.reset_times[k]))}

InitOverlap ==
    \E pool \in Pools, file \in UnexpiredFiles :
        Construct(pool, file, 0, 1, "overlap")

\* key_manager = KeyManager() of the second upload
SecondUpload ==
    /\ pc = "overlap"
    /\ ~peer.active
    /\ peer' = [active |-> TRUE,
                key_usage |-> load_usage_state(usage_file).key_usage,
                last_reset |-> load_usage_state(usage_file).last_reset,
                current_key_index |-> 0]
    /\ UNCHANGED <<succeeded, lm>>
    /\ UNCHANGED <<kmVars, now, runVars, examined, calls, acquisitions,
                   usage_at_start, marked, passed, chunks, sink_calls, acquired,
                   taken, slept, response>>

\* get_next_available_key called by a row of the first upload
FirstAcquires ==
    /\ pc = "overlap"
    /\ Total(taken) < MaxOverlap
    /\ LET r == get_next_available_key(api_keys, current_key_index, key_usage,
                                       last_reset, now)
       IN  /\ key_usage' = r.key_usage
           /\ last_reset' = r.last_reset
           /\ current_key_index' = r.current_key_index
           /\ examined' = r.examined
           /\ api_key' = r.key
           /\ usage_file' = IF r.key = NONE THEN usage_file
                            ELSE save_usage_state(r.key_usage, r.last_reset,
                                                  usage_file, "ok")
           /\ taken' = IF r.key = NONE THEN taken
                        ELSE [taken EXCEPT ![r.key] = @ + 1]
    /\ UNCHANGED <<succeeded, lm>>
    /\ UNCHANGED <<api_keys, now, total_contacts, batch_size, i, processed,
                   successful, batch, j, results, attempt, gen, reply,
                   output_file, pc, calls, acquisitions, usage_at_start, marked,
                   passed, chunks, sink_calls, acquired, peer, slept, response>>

\* get_next_available_key called by a row of the second upload
SecondAcquires ==
    /\ pc = "overlap"
    /\ peer.active
    /\ Total(taken) < MaxOverlap
    /\ LET r == get_next_available_key(api_keys, peer.current_key_index,
                                       peer.key_usage, peer.last_reset, now)
       IN  /\ peer' = [active |-> TRUE, key_usage |-> r.key_usage,
                       last_reset |-> r.last_reset,
                       current_key_index |-> r.current_key_index]
           /\ examined' = r.examined
           /\ api_key' = r.key
           /\ usage_file' = IF r.key = NONE THEN usage_file
                            ELSE save_usage_state(r.key_usage, r.last_reset,
                                                  usage_file, "ok")
           /\ taken' = IF r.key = NONE THEN taken
                        ELSE [taken EXCEPT ![r.key] = @ + 1]
    /\ UNCHANGED <<succeeded, lm>>
    /\ UNCHANGED <<api_keys, key_usage, last_reset, current_key_index, now,
                   total_contacts, batch_size, i, processed, successful, batch,
                   j, results, attempt, gen, reply, output_file, pc, calls,
                   acquisitions, usage_at_start, marked, passed, chunks,
                   sink_calls, acquired, slept, response>>

NextOverlap ==
    \/ SecondUpload
    \/ FirstAcquires
    \/ SecondAcquires

SpecOverlap == InitOverlap /\ [][NextOverlap]_vars

TypeOK ==
    /\ pc \in {"batch_loop", "row_loop", "acquire", "call", "backoff", "row_end",
               "batch_done", "returned", "raised", "responded", "drain",
               "overlap", "new", "loaded", "listmonk"}
    /\ current_key_index \in 0..(Len(api_keys) - 1)
    /\ DOMAIN key_usage \subseteq Keys \cup {""}
    /\ DOMAIN last_reset \subseteq Keys \cup {""}

\* ------------------------------------------------------------------ claims
\* callsUsed of key k as the next get_next_available_key will see it, after
\* the lazy 24h reset
EffectiveUsed(k) ==
    IF k \in DOMAIN last_reset /\ (now - last_reset[k]) > DAY
    THEN 0
    ELSE Get(key_usage, k, 0)

\* C1: get_next_available_key never returns a key whose callsUsed, as it stood
\* at the start of that call after the lazy 24h reset, had reached QUOTA.
C1_NeverReturnsExhausted ==
    [][(pc = "acquire" /\ api_key' # NONE) => EffectiveUsed(api_key') < QUOTA]_vars

\* C1 witness: an acquisition that skipped a key at its limit and returned the
\* next one.
C1_Witness ==
    /\ pc = "call"
    /\ examined = <<"A", "B">>
    /\ api_key = "B"
    /\ key_usage["A"] >= QUOTA

DistinctKeys == Cardinality(Range(api_keys))

\* C2 as stated: within one window, starting from an empty ledger, the first
\* N * QUOTA acquisitions on a pool of N entries never return NONE and no
\* callsUsed passes QUOTA, also when the pool names a key twice.
C2_Original ==
    (pc = "drain" /\ acquired >= 1 /\ acquired <= Len(api_keys) * QUOTA)
        => /\ api_key # NONE
           /\ \A k \in DOMAIN key_usage : key_usage[k] <= QUOTA

\* C2 amended: within one window, starting from an empty ledger, the first
\* D * QUOTA acquisitions never return NONE and no callsUsed passes QUOTA,
\* where D is the number of distinct keys in the pool.
C2_DistinctCapacity ==
    (pc = "drain" /\ acquired >= 1 /\ acquired <= DistinctKeys * QUOTA)
        => /\ api_key # NONE
           /\ \A k \in DOMAIN key_usage : key_usage[k] <= QUOTA

\* C2 witness: the last acquisition a two-key pool can serve.
C2_Witness ==
    /\ pc = "drain"
    /\ api_keys = <<"A", "B">>
    /\ acquired = 2 * QUOTA
    /\ api_key = "B"
    /\ key_usage["A"] = QUOTA
    /\ key_usage["B"] = QUOTA

\* C3: a key whose windowStart is more than 24h old is reset by the next
\* get_next_available_key that examines it (callsUsed 0, windowStart now) before
\* the quota test, so that call returns it whatever its callsUsed was; a key
\* whose windowStart is 24h old or less is never reset.
C3_LazyWindowReset ==
    [][/\ pc = "acquire" =>
            \A n \in 1..Len(examined') :
                LET k == examined'[n]
                IN  (k \in DOMAIN last_reset /\ (now - last_reset[k]) > DAY)
                        => /\ api_key' = k
                           /\ key_usage'[k] = 1
                           /\ last_reset'[k] = now
       /\ \A k \in DOMAIN last_reset :
            (now - last_reset[k]) <= DAY
                => /\ last_reset'[k] = last_reset[k]
                   /\ Get(key_usage', k, 0) >= Get(key_usage, k, 0)]_vars

\* C3 witness: a key marked exhausted earlier in the run is handed out again,
\* reset, once its window has expired.
C3_Witness ==
    /\ pc = "call"
    /\ Get(usage_at_start, api_key, 0) = EXHAUSTED
    /\ key_usage[api_key] = 1
    /\ last_reset[api_key] = now

\* C4: a key marked exhausted is not returned by a later get_next_available_key
\* until its window has expired (more than 24h after its windowStart).
C4_MarkedKeyExcluded ==
    [][(pc = "acquire" /\ api_key' # NONE /\ api_key' \in marked)
            => (now - last_reset[api_key']) > DAY]_vars

\* C4 witness: a key that had made a single call is marked exhausted, and the
\* next acquisition passes over it.
C4_Witness ==
    /\ pc = "call"
    /\ "A" \in marked
    /\ Get(usage_at_start, "A", 0) = 0
    /\ examined = <<"A", "B">>
    /\ api_key = "B"

\* C5: with the pool [A, B], when every call made with A fails with a quota
\* error and every call made with B succeeds (B under quota), a record whose
\* first call uses A ends as a result produced with B after at most
\* maxAttempts (3) generation calls.
C5_ServedByOtherKey ==
    (/\ pc = "row_end"
     /\ api_keys = <<"A", "B">>
     /\ calls # <<>>
     /\ calls[1].key = "A"
     /\ \A n \in 1..Len(calls) : calls[n].key = "A" => calls[n].exc = "quota"
     /\ \A n \in 1..Len(calls) : calls[n].key = "B" => calls[n].exc = "none"
     /\ Get(usage_at_start, "B", 0) < QUOTA)
        => /\ gen = "result"
           /\ calls[Len(calls)].key = "B"
           /\ Len(calls) <= 3

\* C5 witness: A fails twice (its window expired during the backoff), the
\* third call uses B and succeeds.
C5_Witness ==
    /\ pc = "row_end"
    /\ api_keys = <<"A", "B">>
    /\ gen = "result"
    /\ Len(calls) = 3
    /\ calls[1] = [key |-> "A", exc |-> "quota"]
    /\ calls[2] = [key |-> "A", exc |-> "quota"]
    /\ calls[3] = [key |-> "B", exc |-> "none"]

ExpectedChunk(c) ==
    [n \in 1..Min(batch_size, total_contacts - (c - 1) * batch_size) |->
        (c - 1) * batch_size + n]

RECURSIVE ResultsUpTo(_)
ResultsUpTo(c) == IF c = 0 THEN 0 ELSE ResultsUpTo(c - 1) + chunks[c].nresults

ChunksWithResults ==
    SelectSeq([c \in 1..Len(chunks) |-> c], LAMBDA c : chunks[c].nresults > 0)

\* C6: process_contacts takes ceil(M/b) contiguous chunks in input order (all
\* of size b except possibly the last), hands every record to
\* generate_personalized_email exactly once, calls the sink exactly once for
\* each chunk with at least one result and never for a chunk with none, and
\* returns attempted = M and succeeded = number of results <= attempted; both
\* counters never decrease.
C6_Dispatch ==
    /\ [](/\ \A n \in 1..Len(passed) : passed[n] = n
          /\ sink_calls = ChunksWithResults
          /\ successful = ResultsUpTo(Len(chunks))
          /\ successful <= processed
          /\ pc = "returned" =>
                /\ Len(chunks) = (total_contacts + batch_size - 1) \div batch_size
                /\ \A c \in 1..Len(chunks) : chunks[c].rows = ExpectedChunk(c)
                /\ passed = [n \in 1..total_contacts |-> n]
                /\ processed = total_contacts)
    /\ [][processed' >= processed /\ successful' >= successful]_vars

\* C6 witness: three records in batches of two; the first chunk gives no
\* result, the second gives one, and the run returns.
C6_Witness ==
    /\ pc = "returned"
    /\ total_contacts = 3
    /\ batch_size = 2
    /\ Len(chunks) = 2
    /\ chunks[1].nresults = 0
    /\ chunks[2].nresults = 1
    /\ sink_calls = <<2>>
    /\ successful = 1

Ledger == [key_usage |-> key_usage, last_reset |-> last_reset]

\* C7: save_usage_state followed by load_usage_state in a fresh KeyManager
\* gives back the same callsUsed and windowStart for every key of the ledger,
\* after any acquisitions and exhaustion markings.
C7_SaveLoadRoundTrip ==
    /\ load_usage_state(save_usage_state(key_usage, last_reset, usage_file, "ok"))
           = Ledger
    /\ (pc = "call" /\ acquisitions[Len(acquisitions)].saved)
           => load_usage_state(usage_file) = Ledger

\* C7 witness: a ledger with a marked key, just written by an acquisition,
\* whose window starts are not at midnight.
C7_Witness ==
    /\ pc = "call"
    /\ acquisitions[Len(acquisitions)].saved
    /\ marked # {}
    /\ \A k \in DOMAIN last_reset : last_reset[k] % DAY # 0

Persisted == usage_file.kind = "json" /\ load_usage_state(usage_file) = Ledger

OneAcquirePerCall ==
    /\ Len(acquisitions) <= 3
    /\ Len(calls) <= 3
    /\ \A n \in 1..Len(calls) :
          n <= Len(acquisitions) /\ acquisitions[n].key = calls[n].key
                                 /\ calls[n].key # NONE
    /\ pc = "call" => /\ Len(acquisitions) = Len(calls) + 1
                      /\ acquisitions[Len(acquisitions)].key = api_key
                      /\ api_key # NONE

IncrementsByOne ==
    (pc = "acquire" /\ pc' = "call")
        => key_usage'[api_key'] = EffectiveUsed(api_key') + 1

\* C8 as stated: at most 3 acquisitions and 3 generation calls per record, and
\* each call is preceded by exactly one successful acquisition that incremented
\* the key's callsUsed by one and persisted the ledger before the call.
C8_Original ==
    /\ [](OneAcquirePerCall /\ (pc = "call" => Persisted))
    /\ [][IncrementsByOne]_vars

\* C8 amended: as C8, but the ledger on disk holds the increment before the
\* call only when the write of save_usage_state succeeded; save_usage_state is
\* always called before the call is issued.
C8_BoundedAccountedAttempts ==
    /\ [](OneAcquirePerCall
          /\ ((pc = "call" /\ acquisitions[Len(acquisitions)].saved) => Persisted))
    /\ [][IncrementsByOne]_vars

\* C8 witness: the third generation call of a record is about to be issued,
\* after three acquisitions, the last one written to disk.
C8_Witness ==
    /\ pc = "call"
    /\ Len(calls) = 2
    /\ Len(acquisitions) = 3
    /\ acquisitions[3].saved
    /\ Persisted

\* C9: generate_personalized_email ends with a result or with None; no failure
\* of the acquisition, of the call or of the parsing leaves it as an exception.
C9_NoFaultEscapes ==
    pc = "row_end" => gen \in {"result", "none"}

\* C9 witness: a reply with too few fields ends the record with None.
C9_Witness ==
    /\ pc = "row_end"
    /\ gen = "none"
    /\ calls # <<>>
    /\ calls[Len(calls)].exc = "IndexError"

\* C10 as stated: process_contacts never raises; a failure of the sink append
\* of a chunk is caught and the dispatcher goes on to the next chunk.
C10_NeverRaises ==
    pc # "raised"

PoolExhausted == \A k \in Range(api_keys) : EffectiveUsed(k) >= QUOTA

\* C11: when every key of the pool is exhausted, get_next_available_key returns
\* None and generate_personalized_email returns None for the record at once,
\* without a sleep and without a generation call; the run goes on, the record
\* counts as attempted and adds no success.
C11_NoCapacityFailsAtOnce ==
    /\ [][(pc = "acquire" /\ PoolExhausted)
            => /\ api_key' = NONE
               /\ gen' = "none"
               /\ pc' = "row_end"
               /\ calls' = calls
               /\ slept' = slept
               /\ now' = now]_vars
    /\ [][(pc = "row_end" /\ api_key = NONE)
            => /\ results' = results
               /\ pc' \in {"row_loop", "batch_done"}]_vars
    /\ [](pc = "returned" => processed = total_contacts)

\* C11 witness: a record of a two-key pool ended without any call because both
\* keys were exhausted.
C11_Witness ==
    /\ pc = "row_end"
    /\ api_keys = <<"A", "B">>
    /\ examined = <<"A", "B">>
    /\ api_key = NONE
    /\ calls = <<>>
    /\ gen = "none"

C15_ExactlyThreeFields ==
    (pc = "row_end" /\ reply.error = "none" /\ reply.segments # 3
        /\ reply.segments # 0)
        => gen = "none"

\* C16 as stated: every result returned by generate_personalized_email has a
\* non-empty email, name and message once stripped.
C16_NoBlankField ==
    (pc = "row_end" /\ gen = "result") => ~reply.blank

SaveAttempted ==
    usage_file = CorruptFile \/ (usage_file.kind = "json" /\ load_usage_state(usage_file) = Ledger)

\* C17: a quota error at attempt k (1-based) marks the key exhausted and saves
\* the ledger (the file holds the new ledger unless the write failed); for
\* k < 3 the controller then sleeps retry_delay * 2^(k-1) seconds (1s, then 2s)
\* before the next attempt, for k = 3 it returns None without sleeping.
C17_QuotaBackoff ==
    /\ [][(pc = "call" /\ reply'.error = "quota")
            => /\ key_usage'[api_key] >= QUOTA
               /\ SaveAttempted'
               /\ slept' = slept
               /\ IF attempt + 1 < 3
                  THEN pc' = "backoff"
                  ELSE pc' = "row_end" /\ gen' = "none"]_vars
    /\ [][pc = "backoff"
            => /\ slept' = Append(slept, IF attempt = 0 THEN 1 ELSE 2)
               /\ pc' = "acquire"]_vars
    /\ [][pc # "backoff" => (slept' = slept \/ slept' = <<>>)]_vars

\* C17 witness: three quota errors in a row; the record ended after sleeps of
\* 1s and 2s and no sleep after the third.
C17_Witness ==
    /\ pc = "row_end"
    /\ Len(calls) = 3
    /\ \A n \in 1..3 : calls[n].exc = "quota"
    /\ slept = <<1, 2>>
    /\ gen = "none"

\* C18 as stated: marking sets callsUsed to QUOTA (1450), so callsUsed never
\* exceeds QUOTA.
C18_Original ==
    \A k \in DOMAIN key_usage : key_usage[k] <= 1450

\* C18 amended: marking sets callsUsed to 1500, above QUOTA; callsUsed never
\* exceeds 1500 and is above QUOTA only at that value.
C18_MarkedAtPenalty ==
    /\ [][(pc = "call" /\ reply'.error = "quota") => key_usage'[api_key] = 1500]_vars
    /\ [](\A k \in DOMAIN key_usage :
             key_usage[k] <= 1450 \/ key_usage[k] = 1500)

\* C18 witness: a key that had not been used is marked exhausted.
C18_Witness ==
    /\ pc = "backoff"
    /\ api_key \in marked
    /\ Get(usage_at_start, api_key, 0) = 0
    /\ key_usage[api_key] = 1500

\* C19 as stated: a successful acquisition adds one to the key's callsUsed,
\* saves the ledger and moves the cursor one position past the returned key
\* (modulo N); exhausted keys are passed over, at most N keys are examined.
C19_Original ==
    [][(pc = "acquire" /\ api_key' # NONE)
            => /\ key_usage'[api_key'] = EffectiveUsed(api_key') + 1
               /\ SaveAttempted'
               /\ Len(examined') <= Len(api_keys)
               /\ current_key_index' =
                    (current_key_index + Len(examined')) % Len(api_keys)]_vars

\* C19 amended: a successful acquisition adds one to the key's callsUsed, saves
\* the ledger and leaves the cursor on the returned key, so the same key is
\* used again until it is exhausted; the cursor moves one position for each
\* exhausted key passed over, and at most N keys are examined.
C19_CursorStaysOnKey ==
    /\ [][(pc = "acquire" /\ api_key' # NONE)
            => /\ key_usage'[api_key'] = EffectiveUsed(api_key') + 1
               /\ SaveAttempted'
               /\ Len(examined') <= Len(api_keys)
               /\ api_keys[current_key_index' + 1] = api_key'
               /\ current_key_index' =
                    (current_key_index + Len(examined') - 1) % Len(api_keys)]_vars
    /\ [][pc = "acquire" => Len(examined') <= Len(api_keys)]_vars

\* C19 witness: the acquisition passed over exhausted A and returned B, the
\* cursor now on B.
C19_Witness ==
    /\ pc = "call"
    /\ api_keys = <<"A", "B">>
    /\ examined = <<"A", "B">>
    /\ api_key = "B"
    /\ current_key_index = 1

\* C20: provided the save succeeds, after every successful acquisition and
\* after every exhaustion marking the ledger on disk equals the ledger in
\* memory (same callsUsed and windowStart for every key).
C20_WriteThrough ==
    /\ [][(pc = "acquire" /\ api_key' # NONE /\ usage_file'.kind = "json")
            => (usage_file'.usage = key_usage'
                /\ load_usage_state(usage_file').last_reset = last_reset')]_vars
    /\ [][(pc = "call" /\ reply'.error = "quota" /\ usage_file'.kind = "json")
            => (usage_file'.usage = key_usage'
                /\ load_usage_state(usage_file').last_reset = last_reset')]_vars

\* C20 witness: a marking of a two-key ledger was written to disk.
C20_Witness ==
    /\ pc = "backoff"
    /\ marked # {}
    /\ DOMAIN key_usage = {"A", "B"}
    /\ usage_file.kind = "json"
    /\ usage_file.usage = key_usage

\* C12 as stated: with two runs of process_contacts in progress at the same
\* time, the callsUsed on disk of every key equals what it was when the first
\* run started plus the acquisitions of that key made by both runs, and never
\* passes QUOTA.
C12_NoLostAcquisition ==
    pc = "overlap" =>
        \A k \in Keys :
            /\ Get(usage_file.usage, k, 0) = Get(usage_at_start, k, 0) + taken[k]
            /\ Get(usage_at_start, k, 0) + taken[k] <= 1450

\* C13 as stated, for the case it names: an upload of one or more records of
\* which none succeeds still reports the attempted and succeeded counts.
C13_CountsReported ==
    (pc = "responded" /\ total_contacts >= 1 /\ successful = 0)
        => response = "counts"

\* A save_usage_state whose write failed: the calls counted in memory are
\* not the ones on disk
SaveFailed == usage_file = CorruptFile

\* C22: when the save fails during an acquisition, get_next_available_key
\* still returns its key with the in-memory callsUsed one higher and the
\* record goes on to its call; when it fails during an exhaustion marking, the
\* key is marked in memory and the record goes on to its backoff (or ends with
\* NONE on the last attempt); in neither case is the run aborted.
C22_SaveFailsSoft ==
    [][/\ (pc = "acquire" /\ ~PoolExhausted /\ SaveFailed')
            => /\ api_key' \in Range(api_keys)
               /\ key_usage'[api_key'] = EffectiveUsed(api_key') + 1
               /\ pc' = "call"
       /\ (pc = "call" /\ marked' # marked /\ SaveFailed')
            => /\ key_usage'[api_key] = EXHAUSTED
               /\ pc' = IF attempt < max_retries - 1 THEN "backoff" ELSE "row_end"
               /\ gen' # "exception"
       /\ (SaveFailed' /\ ~SaveFailed) => pc' \in {"call", "backoff", "row_end"}]_vars

\* C22 witness: the save failed during the acquisition and again during the
\* marking, and the record is in its backoff with the key marked in memory.
C22_Witness ==
    /\ pc = "backoff"
    /\ SaveFailed
    /\ acquisitions # <<>>
    /\ ~acquisitions[Len(acquisitions)].saved
    /\ key_usage[api_key] = EXHAUSTED

\* C26: a get_next_available_key that returns None leaves every key's
\* callsUsed as it was, saves nothing, and leaves the cursor on the index it
\* started from after examining each of the N entries once; the cursor is an
\* index of the pool (0..N-1) in every reachable state.
C26_NoneChangesNothing ==
    /\ [][(pc = "acquire" /\ api_key' = NONE /\ pc' = "row_end" /\ gen' = "none")
            => /\ \A k \in Keys : Get(key_usage', k, 0) = Get(key_usage, k, 0)
               /\ usage_file' = usage_file
               /\ current_key_index' = current_key_index
               /\ Len(examined') = Len(api_keys)]_vars
    /\ [](current_key_index \in 0..(Len(api_keys) - 1))

\* C26 witness: with the cursor on the second entry of [A, B] and both keys
\* exhausted, the acquisition went round the pool and came back to it.
C26_Witness ==
    /\ pc = "row_end"
    /\ api_key = NONE
    /\ acquisitions # <<>>
    /\ acquisitions[Len(acquisitions)].key = NONE
    /\ examined = <<"B", "A">>
    /\ current_key_index = 1

\* Rows of this run, of the batches that process_contacts has finished
Finished(rows) == SelectSeq(rows, LAMBDA c : c <= processed)

\* Rows of the output CSV written by this run
Added(rows) == SelectSeq(rows, LAMBDA c : c > 0)

Increasing(rows) ==
    \A a, b \in 1..Len(rows) : a < b => rows[a] < rows[b]

\* The run has not been cut short by an error of the output file (C10)
SinkIntact == pc \notin {"raised", "responded"}

\* One append per batch, made after the last row of the batch was tried and
\* before the next batch is taken
OneAppendPerBatch ==
    [][output_file' # output_file
            => /\ pc = "batch_done"
               /\ j > Len(batch)
               /\ Len(passed) = processed'
               /\ pc' = "batch_loop"
               /\ output_file'.rows = output_file.rows \o results
               /\ output_file'.header >= output_file.header]_vars

\* C24 as stated: after a run the output CSV holds exactly the results of the
\* successful rows in input order, each once, written one batch per append
\* between the last row of that batch and the first row of the next, and
\* exactly one header line.
C24_Original ==
    /\ OneAppendPerBatch
    /\ [](pc = "returned" =>
            /\ output_file.rows = succeeded
            /\ Increasing(output_file.rows)
            /\ output_file.header = 1)

\* C24 amended: the rows a run adds to the output CSV are exactly the results
\* of its successful rows in input order, each once, after the rows the file
\* held already, written one batch per append between the last row of that
\* batch and the first row of the next; the header line is written by the
\* first append that finds the file absent or empty, so the file holds one
\* header line as soon as it holds a row, and it is not created when it was
\* absent and no row succeeded.
C24_AppendsInOrder ==
    /\ OneAppendPerBatch
    /\ [](SinkIntact =>
            /\ Added(output_file.rows) = Finished(succeeded)
            /\ Increasing(output_file.rows)
            /\ output_file.header = (IF output_file.rows = <<>> THEN 0 ELSE 1))
    /\ [](pc = "returned" => Added(output_file.rows) = succeeded)
    /\ [][Len(output_file'.rows) >= Len(output_file.rows)
            /\ SubSeq(output_file'.rows, 1, Len(output_file.rows))
                    = output_file.rows]_vars

\* C24 witness: a run of three rows in two batches on a file that held a row
\* already; the first and the third row succeeded, two appends added them and
\* wrote no second header.
C24_Witness ==
    /\ pc = "returned"
    /\ total_contacts = 3
    /\ batch_size = 2
    /\ succeeded = <<1, 3>>
    /\ sink_calls = <<1, 2>>
    /\ output_file = [header |-> 1, rows |-> <<0, 1, 3>>]

\* C21 as stated: whatever is wrong with key_usage.json (absent, unreadable,
\* not JSON, 'usage' or 'reset_times' missing or malformed), the KeyManager is
\* constructed and no key has a callsUsed other than zero.
C21_LoadFailsSoft ==
    (pc = "loaded" /\ acquired = 0 /\ usage_file.kind # "json")
        => \A k \in Keys : Get(key_usage, k, 0) = 0

\* C23 as stated: a KeyManager built without any configured key fails at
\* construction, so no row is ever handed to generate_personalized_email and
\* no empty key is ever counted by get_next_available_key.
C23_EmptyPoolFailsFast ==
    (\E n \in 1..Len(api_keys) : api_keys[n] = "")
        => /\ passed = <<>>
           /\ "" \notin DOMAIN key_usage
           /\ \A n \in 1..Len(acquisitions) : acquisitions[n].key # ""

\* C25: make_listmonk_request makes at most 3 attempts; it returns the
\* response of the first attempt that succeeds and makes no attempt after it;
\* when all three fail it raises the error of the third; it sleeps between
\* attempts only, never after the last; it never returns without a response.
C25_BoundedRetries ==
    /\ [](/\ Len(lm.outcomes) <= 3
          /\ \A n \in 1..(Len(lm.outcomes) - 1) : lm.outcomes[n] # "ok"
          /\ Len(lm.slept) <= 2)
    /\ [](lm.pc = "returned" =>
            /\ lm.result = "response"
            /\ lm.outcomes[Len(lm.outcomes)] = "ok"
            /\ Len(lm.slept) = Len(lm.outcomes) - 1)
    /\ [](lm.pc = "raised" =>
            /\ Len(lm.outcomes) = 3
            /\ lm.result = lm.outcomes[3]
            /\ Len(lm.slept) = 2)
    /\ [](lm.pc = "try" => Len(lm.slept) = Len(lm.outcomes))
    /\ [][lm.pc \in {"returned", "raised"} => lm' = lm]_vars

\* C25 witness: two attempts failed, each followed by a sleep (1.0 s, then
\* 2.2 s), and the third attempt gave the response that is returned.
C25_Witness ==
    /\ lm.pc = "returned"
    /\ lm.outcomes = <<"ConnectError", "HTTPStatusError", "ok">>
    /\ lm.slept = <<10, 22>>
    /\ lm.result = "response"

====
